---- MODULE Spec2Model ----
(***************************************************************************)
(* Model of final_kadai.py: a Streamlit viewing-history tracker.           *)
(*                                                                         *)
(* Text is modelled as a sequence of one-character strings so that        *)
(* split / strip / re.search / int are computed, not assumed.  The        *)
(* backing file is modelled as a sequence of JSON tokens so that          *)
(* json.dump / json.load are computed and a truncated write is a prefix.   *)
(* One user interaction = one action: the widget callback, the script run  *)
(* it triggers and, where the script calls st.rerun(), the rerun.          *)
(***************************************************************************)
EXTENDS Integers, Sequences, FiniteSets, TLC

VARIABLES session, works, confirm_delete_all, file, trigger, fetch, view

vars == <<session, works, confirm_delete_all, file, trigger, fetch, view>>

(***************************************************************************)
(* Bounds                                                                  *)
(***************************************************************************)
MaxWorks == 3
MaxParts == 4

(***************************************************************************)
(* Text helpers                                                            *)
(***************************************************************************)
Digits == {"0", "1", "2", "3", "4", "5", "6", "7", "8", "9"}

Whitespace == {" ", "\n"}

DigitVal(c) ==
  CASE c = "0" -> 0 [] c = "1" -> 1 [] c = "2" -> 2 [] c = "3" -> 3
    [] c = "4" -> 4 [] c = "5" -> 5 [] c = "6" -> 6 [] c = "7" -> 7
    [] c = "8" -> 8 [] c = "9" -> 9

DELIM == <<"|", "|", "|">>

\* str.find('|||'): scan left to right from position i, 0 when absent
RECURSIVE FindDelim(_, _)
FindDelim(s, i) ==
  IF i + 2 > Len(s) THEN 0
  ELSE IF SubSeq(s, i, i + 2) = DELIM THEN i
  ELSE FindDelim(s, i + 1)

\* str.split('|||'): leftmost, non-overlapping
RECURSIVE split(_)
split(s) ==
  LET i == FindDelim(s, 1)
  IN IF i = 0 THEN <<s>>
     ELSE <<SubSeq(s, 1, i - 1)>> \o split(SubSeq(s, i + 3, Len(s)))

RECURSIVE lstrip(_)
lstrip(s) ==
  IF s # <<>> /\ Head(s) \in Whitespace THEN lstrip(Tail(s)) ELSE s

RECURSIVE rstrip(_)
rstrip(s) ==
  IF s # <<>> /\ s[Len(s)] \in Whitespace
  THEN rstrip(SubSeq(s, 1, Len(s) - 1)) ELSE s

\* str.strip()
strip(s) == rstrip(lstrip(s))

\* the greedy \d+ match starting at the head of s
RECURSIVE TakeDigits(_)
TakeDigits(s) ==
  IF s # <<>> /\ Head(s) \in Digits
  THEN <<Head(s)>> \o TakeDigits(Tail(s)) ELSE <<>>

\* mutation: the pattern \d instead of \d+ (one digit only)
re_search_one_digit(s) ==
  LET RECURSIVE First(_)
      First(t) == IF t = <<>> THEN <<>>
                  ELSE IF Head(t) \in Digits THEN <<Head(t)>>
                  ELSE First(Tail(t))
  IN First(s)

\* re.search(r'\d+', s): the first maximal digit run, <<>> for no match
RECURSIVE re_search(_)
re_search(s) ==
  IF s = <<>> THEN <<>>
  ELSE IF Head(s) \in Digits THEN TakeDigits(s)
  ELSE re_search(Tail(s))

\* int(str) of a digit run, most significant digit first
RECURSIVE int(_)
int(d) ==
  IF d = <<>> THEN 0
  ELSE 10 * int(SubSeq(d, 1, Len(d) - 1)) + DigitVal(d[Len(d)])

(***************************************************************************)
(* AI gateway                                                              *)
(***************************************************************************)
FETCH_FAILED == <<"FETCH_FAILED">>
BAD_FORMAT == <<"BAD_FORMAT">>
API_ERROR == <<"API_ERROR">>
ANALYSIS_FAILED == <<"ANALYSIS_FAILED">>
NoText == <<>>

\* where the generative-language client raises during one call, if at all
ServiceFaults == {"none", "construct", "generate", "text"}

Returned(s, m, r) ==
  [raised |-> FALSE, viewing_time_summary |-> s, total_minutes |-> m,
   reputation |-> r]

Propagated == [raised |-> TRUE, viewing_time_summary |-> NoText,
               total_minutes |-> 0, reputation |-> NoText]

\* get_work_info_with_gemini; svc = [fault, text] is how the service behaves
get_work_info_with_gemini(svc) ==
  IF svc.fault = "construct" THEN Propagated
  ELSE IF svc.fault \in {"generate", "text"}
  THEN Returned(FETCH_FAILED, 0, API_ERROR)
  ELSE LET parts == split(svc.text)
       IN IF Len(parts) = 3
          THEN LET total_minutes_str == re_search(parts[2])
               IN Returned(strip(parts[1]),
                           IF total_minutes_str # <<>>
                           THEN int(total_minutes_str) ELSE 0,
                           strip(parts[3]))
          ELSE Returned(FETCH_FAILED, 0, BAD_FORMAT)

\* analyze_with_gemini
analyze_with_gemini(svc) ==
  IF svc.fault = "construct" THEN [raised |-> TRUE, text |-> NoText]
  ELSE IF svc.fault \in {"generate", "text"}
  THEN [raised |-> FALSE, text |-> ANALYSIS_FAILED]
  ELSE [raised |-> FALSE, text |-> svc.text]

(***************************************************************************)
(* Records and the JSON file                                               *)
(***************************************************************************)
Stars(n) == [i \in 1..n |-> "*"]

\* the dict built at lines 117-126
Record(form, info) ==
  [title |-> form.title, category |-> form.category,
   impression |-> form.impression, rating_stars |-> Stars(form.user_rating),
   rating |-> form.user_rating,
   viewing_time_summary |-> info.viewing_time_summary,
   total_minutes |-> info.total_minutes, reputation |-> info.reputation]

NoRecord ==
  [title |-> "", category |-> "", impression |-> "", rating_stars |-> <<>>,
   rating |-> 0, viewing_time_summary |-> NoText, total_minutes |-> 0,
   reputation |-> NoText]

Tok(t) == [t |-> t, v |-> NoRecord]
Obj(r) == [t |-> "obj", v |-> r]

\* json.dump of a list of dicts, as a token sequence: [ obj , obj ... ]
RECURSIVE DumpItems(_)
DumpItems(data) ==
  IF data = <<>> THEN <<>>
  ELSE IF Len(data) = 1 THEN <<Obj(data[1])>>
  ELSE <<Obj(Head(data)), Tok(",")>> \o DumpItems(Tail(data))

json_dump(data) == <<Tok("[")>> \o DumpItems(data) \o <<Tok("]")>>

\* the elements of a token sequence obj , obj , ... obj; ok is FALSE when
\* the tokens are not of that shape
RECURSIVE ParseItems(_)
ParseItems(toks) ==
  IF toks = <<>> THEN [ok |-> FALSE, items |-> <<>>]
  ELSE IF Head(toks).t # "obj" THEN [ok |-> FALSE, items |-> <<>>]
  ELSE IF Len(toks) = 1 THEN [ok |-> TRUE, items |-> <<Head(toks).v>>]
  ELSE IF toks[2].t # "," THEN [ok |-> FALSE, items |-> <<>>]
  ELSE LET rest == ParseItems(SubSeq(toks, 3, Len(toks)))
       IN [ok |-> rest.ok,
           items |-> IF rest.ok THEN <<Head(toks).v>> \o rest.items
                     ELSE <<>>]

\* json.load: kind "error" is JSONDecodeError; "list", "null" and "object"
\* are the Python values it can return here
json_load(toks) ==
  IF Len(toks) = 1 /\ toks[1].t = "null"
  THEN [kind |-> "null", items |-> <<>>]
  ELSE IF Len(toks) = 1 /\ toks[1].t = "obj"
  THEN [kind |-> "object", items |-> <<>>]
  ELSE IF Len(toks) >= 2 /\ toks[1].t = "[" /\ toks[Len(toks)].t = "]"
  THEN IF Len(toks) = 2 THEN [kind |-> "list", items |-> <<>>]
       ELSE LET inner == ParseItems(SubSeq(toks, 2, Len(toks) - 1))
            IN IF inner.ok THEN [kind |-> "list", items |-> inner.items]
               ELSE [kind |-> "error", items |-> <<>>]
  ELSE [kind |-> "error", items |-> <<>>]

NoFile == [exists |-> FALSE, utf8 |-> TRUE, toks |-> <<>>]
TextFile(toks) == [exists |-> TRUE, utf8 |-> TRUE, toks |-> toks]
BinaryFile == [exists |-> TRUE, utf8 |-> FALSE, toks |-> <<>>]

\* load_data: raised is an exception leaving the function
load_data(f) ==
  IF ~f.exists THEN [raised |-> FALSE, kind |-> "list", items |-> <<>>]
  ELSE IF ~f.utf8 THEN [raised |-> TRUE, kind |-> "list", items |-> <<>>]
  ELSE LET v == json_load(f.toks)
       IN IF v.kind = "error"
          THEN [raised |-> FALSE, kind |-> "list", items |-> <<>>]
          ELSE [raised |-> FALSE, kind |-> v.kind, items |-> v.items]

Min(a, b) == IF a < b THEN a ELSE b

\* mutation: the file is opened in append mode
save_data_append_mode(f, data, d) ==
  IF d.kind = "ok"
  THEN [file |-> TextFile(f.toks \o json_dump(data)), raised |-> FALSE]
  ELSE [file |-> f, raised |-> TRUE]

\* save_data under a disk outcome d: "ok", "open_fails" (open raises, the
\* file is untouched) or "write_fails" (truncated by open, the write raises
\* after d.cut tokens)
save_data(f, data, d) ==
  LET text == json_dump(data)
  IN CASE d.kind = "ok" -> [file |-> TextFile(text), raised |-> FALSE]
       [] d.kind = "open_fails" -> [file |-> f, raised |-> TRUE]
       [] d.kind = "write_fails" ->
            [file |-> TextFile(SubSeq(text, 1, Min(d.cut, Len(text) - 1))),
             raised |-> TRUE]

(***************************************************************************)
(* Inputs                                                                  *)
(***************************************************************************)
\* what the form widgets hold when the submit button is pressed
Forms ==
  { [title |-> "", category |-> "anime", impression |-> "x", user_rating |-> 3],
    [title |-> "A", category |-> "anime", impression |-> "", user_rating |-> 1],
    [title |-> "B", category |-> "movie", impression |-> "fun",
     user_rating |-> 5] }

NoForm == [title |-> "", category |-> "", impression |-> "", user_rating |-> 0]

Svc(fault, text) == [fault |-> fault, text |-> text]

NoSvc == Svc("none", NoText)

\* service behaviours in which the client object is constructed
Services ==
  { Svc("none", <<"s", "|", "|", "|", "6", "0", "|", "|", "|", "r">>),
    Svc("none", <<" ", "t", "|", "|", "|", "a", "0", "9", "b", "7",
                  "|", "|", "|", "q", "\n">>),
    Svc("none", <<"s", "|", "|", "|", "0", "|", "|", "|", "r">>),
    Svc("none", <<"s", "|", "|", "|", "x", "|", "|", "|", "r">>),
    Svc("none", <<"o", "n", "e">>),
    Svc("generate", NoText) }

\* service behaviours of the failing environment: a good answer, a malformed
\* one, and a client whose construction raises
FaultyServices ==
  { Svc("none", <<"s", "|", "|", "|", "6", "0", "|", "|", "|", "r">>),
    Svc("none", <<"o", "n", "e">>),
    Svc("construct", NoText) }

DiskOK == [kind |-> "ok", cut |-> 0]

DiskOutcomes ==
  {DiskOK, [kind |-> "open_fails", cut |-> 0]}
    \cup {[kind |-> "write_fails", cut |-> c] : c \in {0, 2}}

(***************************************************************************)
(* Widgets                                                                 *)
(***************************************************************************)
W(name) == [name |-> name, index |-> -1]
DeleteKey(index) == [name |-> "delete", index |-> index]

Trigger(widget, form, svc, disk) ==
  [widget |-> widget, form |-> form, svc |-> svc, disk |-> disk]

NoTrigger == Trigger(W("none"), NoForm, NoSvc, DiskOK)

\* the part of an interaction the user sees: the widget and the form content
Pressed(t) == [widget |-> t.widget, form |-> t.form]

NoFetch == [called |-> FALSE, svc |-> NoSvc, result |-> Returned(NoText, 0, NoText)]

\* st.button / st.form_submit_button: True only in the run that the click on
\* this very widget triggered, and only when the call is reached
button(t, key) == t.widget = key

(***************************************************************************)
(* The script, top to bottom.  m is the run: session state, file, what has *)
(* been rendered, and status running / exception / rerun.                  *)
(***************************************************************************)
Begin(sess, w, c, f) ==
  [session |-> sess, works |-> w, confirm |-> c, file |-> f,
   status |-> "running", buttons |-> {}, df |-> <<>>, notice |-> "none",
   info |-> FALSE, fetch |-> NoFetch, saved |-> "none"]

Raise(m) == [m EXCEPT !.status = "exception"]

\* a save_data call inside the run; after(m2) continues when it returns
Saved(m, d) ==
  LET r == save_data(m.file, m.works, d)
  IN [m EXCEPT !.file = r.file, !.saved = d.kind,
               !.status = IF r.raised THEN "exception" ELSE @]

\* lines 97-98
SessionInit(m) ==
  IF m.session # "none" THEN m
  ELSE LET r == load_data(m.file)
       IN IF r.raised THEN Raise(m)
          ELSE [m EXCEPT !.session = IF r.kind = "list" THEN "ready"
                                     ELSE IF r.kind = "null" THEN "loaded_null"
                                     ELSE "loaded_object",
                         !.works = r.items]

\* lines 103-108
Form(m) ==
  IF m.status # "running" THEN m
  ELSE [m EXCEPT !.buttons = @ \cup {W("submit")}]

\* mutation: the zero sentinel is let through
registers_nonnegative(total_minutes) == total_minutes >= 0

\* line 116
registers(total_minutes) == total_minutes > 0

\* mutation: the new record is put first
insert_first(list, r) == <<r>> \o list

\* line 117, list.append
append(list, r) == Append(list, r)

\* lines 112-132
Registration(m, t) ==
  IF m.status # "running" THEN m
  ELSE IF ~(button(t, W("submit")) /\ t.form.title # "") THEN m
  ELSE LET info == get_work_info_with_gemini(t.svc)
           m1 == [m EXCEPT !.fetch = [called |-> TRUE, svc |-> t.svc,
                                      result |-> info]]
       IN IF info.raised THEN Raise(m1)
          ELSE IF registers(info.total_minutes)
          THEN IF m1.session # "ready" THEN Raise(m1)
               ELSE LET m2 == Saved([m1 EXCEPT !.works =
                                        append(@, Record(t.form, info))],
                                    t.disk)
                    IN IF m2.status # "running" THEN m2
                       ELSE [m2 EXCEPT !.notice = "registered"]
          ELSE [m1 EXCEPT !.notice = "fetch_error"]

\* mutation: the panel's display position is used as the storage index
pop_display_position(list, index) ==
  LET k == Len(list) - index
  IN SubSeq(list, 1, k - 1) \o SubSeq(list, k + 1, Len(list))

\* line 159, list.pop(index) with 0 <= index < len(list)
pop(list, index) ==
  SubSeq(list, 1, index) \o SubSeq(list, index + 2, Len(list))

\* lines 142-164: panels are rendered from index n-1 down to 0
Panels(m, t) ==
  IF m.status # "running" THEN m
  ELSE LET n == Len(m.df)
       IN IF t.widget.name = "delete" /\ t.widget.index \in 0..(n - 1)
          THEN LET index == t.widget.index
                   m1 == [m EXCEPT !.buttons =
                            @ \cup {DeleteKey(j) : j \in index..(n - 1)},
                            !.works = pop(@, index)]
                   m2 == Saved(m1, t.disk)
               IN IF m2.status # "running" THEN m2
                  ELSE [m2 EXCEPT !.status = "rerun"]
          ELSE [m EXCEPT !.buttons =
                           @ \cup {DeleteKey(j) : j \in 0..(n - 1)}]

\* one of the two analysis buttons, lines 188-207 or 210-238
AnalysisButton(m, t, name) ==
  IF m.status # "running" THEN m
  ELSE LET m1 == [m EXCEPT !.buttons = @ \cup {W(name)}]
       IN IF ~button(t, W(name)) THEN m1
          ELSE LET r == analyze_with_gemini(t.svc)
               IN IF r.raised THEN Raise(m1)
                  ELSE [m1 EXCEPT !.notice = name]

\* lines 185-238
Analysis(m, t) ==
  CHOOSE end \in
    {AnalysisButton(b, t, "recommend") : b \in
      {AnalysisButton(m, t, "analyze")}} : TRUE

\* lines 250-258, inside "if confirm_delete_all"
ConfirmButtons(m, t) ==
  LET m1 == [m EXCEPT !.buttons = @ \cup {W("yes")}]
  IN IF button(t, W("yes"))
     THEN LET m2 == Saved([m1 EXCEPT !.works = <<>>], t.disk)
          IN IF m2.status # "running" THEN m2
             ELSE [m2 EXCEPT !.status = "rerun"]
     ELSE LET m3 == [m1 EXCEPT !.buttons = @ \cup {W("cancel")}]
          IN IF button(t, W("cancel")) THEN [m3 EXCEPT !.status = "rerun"]
             ELSE m3

\* lines 243-258
BulkDelete(m, t) ==
  IF m.status # "running" THEN m
  ELSE LET m1 == [m EXCEPT !.buttons = @ \cup {W("bulk")},
                           !.confirm = IF button(t, W("bulk")) THEN TRUE
                                       ELSE @]
       IN IF m1.confirm THEN ConfirmButtons(m1, t) ELSE m1

\* mutation: an empty store drops the pending confirmation
History_resets_when_empty(m, t) ==
  IF m.status # "running" THEN m
  ELSE IF m.session = "ready" /\ m.works # <<>>
  THEN CHOOSE end \in
         {BulkDelete(c, t) : c \in
           {Analysis(b, t) : b \in
             {Panels([m EXCEPT !.df = m.works], t)}}} : TRUE
  ELSE [m EXCEPT !.info = TRUE, !.confirm = FALSE]

\* lines 135-262
History(m, t) ==
  IF m.status # "running" THEN m
  ELSE IF m.session = "loaded_object" THEN Raise(m)
  ELSE IF m.session = "ready" /\ m.works # <<>>
  THEN CHOOSE end \in
         {BulkDelete(c, t) : c \in
           {Analysis(b, t) : b \in
             {Panels([m EXCEPT !.df = m.works], t)}}} : TRUE
  ELSE [m EXCEPT !.info = TRUE]

\* the run reaches the end of the script
Finish(m) ==
  IF m.status = "running" THEN [m EXCEPT !.status = "complete"] ELSE m

\* one pass over the script, statement after statement
Script(m, t) ==
  CHOOSE end \in
    {Finish(d) : d \in
      {History(c, t) : c \in
        {Registration(b, t) : b \in
          {Form(a) : a \in {SessionInit(m)}}}}} : TRUE

\* mutation: the callback of "cancel" is not attached
on_click_yes_only(widget, confirm) ==
  IF widget.name = "yes" THEN FALSE ELSE confirm

\* lines 251 and 257: the on_click callbacks, run before the script
on_click(widget, confirm) ==
  IF widget.name \in {"yes", "cancel"} THEN FALSE ELSE confirm

\* a click: callback, the run it triggers and, after st.rerun(), the rerun
Rerun(m1) ==
  IF m1.status # "rerun" THEN m1
  ELSE [Script(Begin(m1.session, m1.works, m1.confirm, m1.file), NoTrigger)
          EXCEPT !.fetch = m1.fetch, !.saved = m1.saved]

Click(sess, w, c, f, t) ==
  CHOOSE end \in
    {Rerun(m1) : m1 \in {Script(Begin(sess, w, on_click(t.widget, c), f), t)}} :
    TRUE

View(m) ==
  [status |-> m.status, buttons |-> m.buttons, df |-> m.df,
   notice |-> m.notice, info |-> m.info, saved |-> m.saved]

NoView ==
  [status |-> "none", buttons |-> {}, df |-> <<>>, notice |-> "none",
   info |-> FALSE, saved |-> "none"]

\* the state after the interaction t
Interact(t) ==
  \E m \in {Click(session, works, confirm_delete_all, file, t)} :
     /\ Len(m.works) <= MaxWorks
     /\ session' = m.session
     /\ works' = m.works
     /\ confirm_delete_all' = m.confirm
     /\ file' = m.file
     /\ trigger' = Pressed(t)
     /\ fetch' = m.fetch
     /\ view' = View(m)

(***************************************************************************)
(* Actions                                                                 *)
(***************************************************************************)
\* a browser session starts: empty session state, first run of the script
StartSession ==
  \E m \in {Script(Begin("none", <<>>, FALSE, file), NoTrigger)} :
     /\ session' = m.session
     /\ works' = m.works
     /\ confirm_delete_all' = m.confirm
     /\ file' = file
     /\ trigger' = [widget |-> W("start"), form |-> NoForm]
     /\ fetch' = NoFetch
     /\ view' = View(m)

Submit(form, svc, d) ==
  /\ W("submit") \in view.buttons
  /\ Interact(Trigger(W("submit"), form, svc, d))

DeleteRecord(index, d) ==
  /\ DeleteKey(index) \in view.buttons
  /\ Interact(Trigger(DeleteKey(index), NoForm, NoSvc, d))

Analyze(svc) ==
  /\ W("analyze") \in view.buttons
  /\ Interact(Trigger(W("analyze"), NoForm, svc, DiskOK))

Recommend(svc) ==
  /\ W("recommend") \in view.buttons
  /\ Interact(Trigger(W("recommend"), NoForm, svc, DiskOK))

BulkDeleteClick ==
  /\ W("bulk") \in view.buttons
  /\ Interact(Trigger(W("bulk"), NoForm, NoSvc, DiskOK))

ConfirmYes(d) ==
  /\ W("yes") \in view.buttons
  /\ Interact(Trigger(W("yes"), NoForm, NoSvc, d))

Cancel ==
  /\ W("cancel") \in view.buttons
  /\ Interact(Trigger(W("cancel"), NoForm, NoSvc, DiskOK))

\* a record an earlier session can have saved
StoredRecord ==
  Record([title |-> "A", category |-> "anime", impression |-> "",
          user_rating |-> 1],
         Returned(<<"s">>, 60, <<"r">>))

\* backing files load_data recovers from, or reads
InitialFiles ==
  { NoFile, TextFile(<<>>), TextFile(<<Tok("[")>>),
    TextFile(json_dump(<<>>)), TextFile(json_dump(<<StoredRecord>>)) }

\* backing files left by something other than save_data
ForeignFiles ==
  { BinaryFile, TextFile(<<Tok("null")>>), TextFile(<<Obj(StoredRecord)>>) }

InitWith(files) ==
  /\ session = "none"
  /\ works = <<>>
  /\ confirm_delete_all = FALSE
  /\ file \in files
  /\ trigger = Pressed(NoTrigger)
  /\ fetch = NoFetch
  /\ view = NoView

Init == InitWith(InitialFiles)

Next ==
  \/ StartSession
  \/ \E form \in Forms, svc \in Services : Submit(form, svc, DiskOK)
  \/ \E index \in 0..(MaxWorks - 1) : DeleteRecord(index, DiskOK)
  \/ \E svc \in Services : Analyze(svc)
  \/ \E svc \in Services : Recommend(svc)
  \/ BulkDeleteClick
  \/ ConfirmYes(DiskOK)
  \/ Cancel

Spec == Init /\ [][Next]_vars

\* the same program where the disk, the client constructor and the content
\* of the backing file can fail it
InitFaulty == InitWith(InitialFiles \cup ForeignFiles)

NextFaulty ==
  \/ StartSession
  \/ \E form \in Forms, svc \in FaultyServices, d \in DiskOutcomes :
       Submit(form, svc, d)
  \/ \E index \in 0..(MaxWorks - 1), d \in DiskOutcomes : DeleteRecord(index, d)
  \/ \E svc \in FaultyServices : Analyze(svc)
  \/ \E svc \in FaultyServices : Recommend(svc)
  \/ BulkDeleteClick
  \/ \E d \in DiskOutcomes : ConfirmYes(d)
  \/ Cancel

SpecFaulty == InitFaulty /\ [][NextFaulty]_vars

(***************************************************************************)
(* get_work_info_with_gemini alone, over generated responses               *)
(***************************************************************************)
Parts ==
  { <<>>, <<"s">>, <<" ", "s", "\n">>, <<"1", "2">>,
    <<"a", "0", "7", "b", "3">>, <<"0">>, <<"0", "0">>, <<"|">> }

RECURSIVE Join(_)
Join(ps) ==
  IF Len(ps) = 1 THEN ps[1] ELSE ps[1] \o DELIM \o Join(Tail(ps))

Responses ==
  {Join(ps) : ps \in UNION {[1..n -> Parts] : n \in 1..MaxParts}}

ParseInputs ==
  {Svc("none", text) : text \in Responses}
    \cup {Svc(f, text) : f \in ServiceFaults \ {"none"}, text \in Parts}

InitParse ==
  /\ session = "none"
  /\ works = <<>>
  /\ confirm_delete_all = FALSE
  /\ file = NoFile
  /\ trigger = Pressed(NoTrigger)
  /\ fetch \in {[called |-> FALSE, svc |-> svc, result |-> NoFetch.result] :
                  svc \in ParseInputs}
  /\ view = NoView

CallFetch ==
  /\ ~fetch.called
  /\ fetch' = [called |-> TRUE, svc |-> fetch.svc,
               result |-> get_work_info_with_gemini(fetch.svc)]
  /\ UNCHANGED <<session, works, confirm_delete_all, file, trigger, view>>

NextParse == CallFetch

SpecParse == InitParse /\ [][NextParse]_vars

(***************************************************************************)
(* Properties of the response parser                                       *)
(***************************************************************************)
IsDelimAt(s, i) ==
  /\ i >= 1 /\ i + 2 <= Len(s)
  /\ s[i] = "|" /\ s[i + 1] = "|" /\ s[i + 2] = "|"

\* s splits into exactly three parts, the delimiters taken at a and b
ThreeParts(s, a, b) ==
  /\ IsDelimAt(s, a)
  /\ \A i \in 1..(a - 1) : ~IsDelimAt(s, i)
  /\ b >= a + 3
  /\ IsDelimAt(s, b)
  /\ \A i \in (a + 3)..(b - 1) : ~IsDelimAt(s, i)
  /\ \A i \in (b + 3)..Len(s) : ~IsDelimAt(s, i)

SplitsInThree(s) == \E a, b \in 1..Len(s) : ThreeParts(s, a, b)

HasDigit(p) == \E k \in 1..Len(p) : p[k] \in Digits

\* p[i..j] is the first maximal run of digits of p
FirstRun(p, i, j) ==
  /\ 1 <= i /\ i <= j /\ j <= Len(p)
  /\ \A k \in i..j : p[k] \in Digits
  /\ \A k \in 1..(i - 1) : p[k] \notin Digits
  /\ j = Len(p) \/ p[j + 1] \notin Digits

RECURSIVE Pow10(_)
Pow10(n) == IF n = 0 THEN 1 ELSE 10 * Pow10(n - 1)

\* the number written in decimal by p[i..j]
RECURSIVE DecimalValue(_, _, _)
DecimalValue(p, i, j) ==
  IF i > j THEN 0
  ELSE DigitVal(p[i]) * Pow10(j - i) + DecimalValue(p, i + 1, j)

\* t is p without its leading and trailing whitespace
Trimmed(p, t) ==
  IF \A k \in 1..Len(p) : p[k] \in Whitespace THEN t = <<>>
  ELSE \E i, j \in 1..Len(p) :
         /\ i <= j
         /\ p[i] \notin Whitespace /\ p[j] \notin Whitespace
         /\ \A k \in 1..(i - 1) : p[k] \in Whitespace
         /\ \A k \in (j + 1)..Len(p) : p[k] \in Whitespace
         /\ t = SubSeq(p, i, j)

\* the call of get_work_info_with_gemini has been made on an answering service
Answered == fetch.called /\ fetch.svc.fault = "none"

\* the three fields of a well-formed response are returned parsed; positive
\* tells what is said about the sign of total_minutes for the run p2[i..j]
ParsedFields(positive(_, _, _)) ==
  LET s == fetch.svc.text
      r == fetch.result
  IN \A a, b \in 1..Len(s) :
       LET p1 == SubSeq(s, 1, a - 1)
           p2 == SubSeq(s, a + 3, b - 1)
           p3 == SubSeq(s, b + 3, Len(s))
       IN ThreeParts(s, a, b) /\ HasDigit(p2) =>
            /\ ~r.raised
            /\ \E i, j \in 1..Len(p2) :
                 /\ FirstRun(p2, i, j)
                 /\ r.total_minutes = DecimalValue(p2, i, j)
                 /\ positive(p2, i, j)
            /\ Trimmed(p1, r.viewing_time_summary)
            /\ Trimmed(p3, r.reputation)

AlwaysPositive(p, i, j) == fetch.result.total_minutes > 0

PositiveIffNonZeroDigit(p, i, j) ==
  fetch.result.total_minutes > 0 <=> \E k \in i..j : p[k] # "0"

\* C5 as stated: for every response that splits into exactly 3 parts with a
\* digit run in part 2, total_minutes is the integer of the first digit run
\* and is > 0 for every run, zeros included; summary and reputation trimmed.
C5_ParseSuccessAlwaysPositive == Answered => ParsedFields(AlwaysPositive)

\* C5 amended: for every response that splits into exactly 3 parts with a
\* digit run in part 2, total_minutes is the integer of the first digit run,
\* and it is > 0 exactly when that run has a non-zero digit; summary is part 1
\* trimmed and reputation is part 3 trimmed.
C5_ParseSuccess == Answered => ParsedFields(PositiveIffNonZeroDigit)

\* a response with text around a zero-led digit run and untrimmed fields
C5_Witness ==
  /\ Answered
  /\ SplitsInThree(fetch.svc.text)
  /\ fetch.result.total_minutes = 7
  /\ fetch.result.viewing_time_summary = <<"s">>
  /\ Len(fetch.svc.text) > 10

\* C6: every response that does not split into exactly 3 parts, and every call
\* in which the service raises (constructing the model, generate_content or
\* reading the text), returns the failure marker with total_minutes = 0, and
\* no exception leaves get_work_info_with_gemini.
C6_FailureCollapse ==
  fetch.called /\ (fetch.svc.fault # "none" \/ ~SplitsInThree(fetch.svc.text))
    => /\ ~fetch.result.raised
       /\ fetch.result.viewing_time_summary = FETCH_FAILED
       /\ fetch.result.total_minutes = 0

(***************************************************************************)
(* Properties of the interaction loop                                      *)
(***************************************************************************)
\* what load_data returns for the backing file f is exactly the list w
LoadsAs(f, w) ==
  LET r == load_data(f)
  IN ~r.raised /\ r.kind = "list" /\ r.items = w

\* C1: from a non-empty store, once the bulk-delete button and then "yes" have
\* been clicked, the in-memory list is empty, the backing file holds an empty
\* array and the pending confirmation is reset.
C1_BulkDeleteConfirm ==
  trigger.widget = W("yes") =>
    /\ works = <<>>
    /\ file = TextFile(json_dump(<<>>))
    /\ LoadsAs(file, <<>>)
    /\ ~confirm_delete_all

\* C2: a submission whose fetch returns total_minutes = 0 appends nothing,
\* calls no save and leaves the list and the file as they were; the list
\* changes in a submission only when total_minutes > 0.
C2_SubmissionGating ==
  [][trigger'.widget = W("submit") =>
       /\ (fetch'.called /\ ~fetch'.result.raised
             /\ fetch'.result.total_minutes = 0
           => works' = works /\ file' = file /\ view'.saved = "none")
       /\ (works' # works =>
             fetch'.called /\ fetch'.result.total_minutes > 0)]_vars

\* a three-part response without digits was submitted to a non-empty store
C2_Witness ==
  /\ trigger.widget = W("submit")
  /\ fetch.called
  /\ SplitsInThree(fetch.svc.text)
  /\ ~HasDigit(fetch.svc.text)
  /\ fetch.result.total_minutes = 0
  /\ view.notice = "fetch_error"
  /\ works # <<>>

\* C3: clicking the delete button of a panel removes exactly the record that
\* panel shows, at its storage position; the other records keep their order,
\* the length drops by one and the file is rewritten to the resulting list.
C3_DeleteExact ==
  [][trigger'.widget.name = "delete" =>
       LET i == trigger'.widget.index + 1
       IN /\ i \in 1..Len(view.df)
          /\ i \in 1..Len(works)
          /\ works[i] = view.df[i]
          /\ Len(works') = Len(works) - 1
          /\ \A k \in 1..(i - 1) : works'[k] = works[k]
          /\ \A k \in i..Len(works') : works'[k] = works[k + 1]
          /\ view'.saved = "ok"
          /\ LoadsAs(file', works')]_vars

\* the oldest of three records, shown in the last panel, was deleted and two
\* different records remain
C3_Witness ==
  /\ trigger.widget = DeleteKey(0)
  /\ Len(works) = 2
  /\ works[1].title # works[2].title
  /\ view.saved = "ok"

\* C4 as stated: at every completed render the file loads back to the
\* in-memory list, and the file is never more than one mutation (one append,
\* one removal or one clear) behind memory, also when a save raises.
OneMutationApart(old, new) ==
  \/ new = old
  \/ new = <<>>
  \/ Len(new) = Len(old) + 1 /\ SubSeq(new, 1, Len(old)) = old
  \/ \E i \in 1..Len(old) :
       new = SubSeq(old, 1, i - 1) \o SubSeq(old, i + 1, Len(old))

C4_NeverMoreThanOneBehind ==
  session = "ready" =>
    /\ view.status = "complete" => LoadsAs(file, works)
    /\ OneMutationApart(load_data(file).items, works)

\* C4 amended: after every interaction whose save_data call returned, the
\* file loads back to exactly the in-memory list; an interaction that calls
\* no save leaves the file untouched.
C4_SyncAfterReturnedSave ==
  [][/\ view'.saved = "ok" => LoadsAs(file', works')
     /\ view'.saved = "none" => file' = file]_vars

\* a save returned with two records in the store
C4_Witness ==
  /\ view.saved = "ok"
  /\ Len(works) >= 2
  /\ file = TextFile(json_dump(works))

\* C7: load_data returns an empty sequence for a missing file and for a file
\* that is not a parseable array of records; it never raises and never
\* returns a non-sequence, so the first run always yields a record list.
C7_LoadRecovery ==
  trigger.widget = W("start") =>
    /\ session = "ready"
    /\ (~file.exists \/ ~file.utf8 \/ json_load(file.toks).kind # "list")
         => works = <<>>

\* C8: a click on "cancel" resets the pending confirmation and leaves the
\* list and the file unchanged, without a save.
C8_CancelNonMutating ==
  [][trigger'.widget = W("cancel") =>
       /\ confirm_delete_all
       /\ ~confirm_delete_all'
       /\ works' = works
       /\ file' = file
       /\ view'.saved = "none"]_vars

\* "cancel" was clicked on a non-empty store
C8_Witness ==
  /\ trigger.widget = W("cancel")
  /\ works # <<>>
  /\ ~confirm_delete_all
  /\ W("yes") \notin view.buttons

\* C9: a submission with a non-empty title and total_minutes > 0 adds exactly
\* one record at the end, the earlier ones unchanged, carrying the submitted
\* and the fetched fields, and saves the full list in the same run.
C9_AppendLast ==
  [][/\ trigger'.widget = W("submit")
     /\ trigger'.form.title # ""
     /\ fetch'.called /\ ~fetch'.result.raised
     /\ fetch'.result.total_minutes > 0
     => LET new == works'[Len(works')]
            form == trigger'.form
            info == fetch'.result
        IN /\ Len(works') = Len(works) + 1
           /\ SubSeq(works', 1, Len(works)) = works
           /\ new.title = form.title
           /\ new.category = form.category
           /\ new.impression = form.impression
           /\ new.rating = form.user_rating
           /\ Len(new.rating_stars) = form.user_rating
           /\ new.viewing_time_summary = info.viewing_time_summary
           /\ new.total_minutes = info.total_minutes
           /\ new.reputation = info.reputation
           /\ view'.saved = "ok"
           /\ LoadsAs(file', works')]_vars

\* a record was registered behind a different one
C9_Witness ==
  /\ trigger.widget = W("submit")
  /\ view.notice = "registered"
  /\ Len(works) >= 2
  /\ works[Len(works)].title = trigger.form.title
  /\ works[1].title # trigger.form.title
  /\ works[Len(works)].total_minutes = 9

\* C10: within a session confirm_delete_all is changed only by the three
\* bulk-delete controls (the first click sets it, "yes" and "cancel" reset
\* it); submission, per-record delete, the analysis actions and an emptied
\* store leave it as it is, and while it is set the confirmation prompt is
\* rendered in every run that ends with a non-empty store.
C10_PendingFrame ==
  [][trigger'.widget.name # "start" =>
       /\ confirm_delete_all' # confirm_delete_all
            => trigger'.widget.name \in {"bulk", "yes", "cancel"}
       /\ trigger'.widget.name = "bulk" => confirm_delete_all'
       /\ trigger'.widget.name \in {"yes", "cancel"} => ~confirm_delete_all'
       /\ confirm_delete_all' /\ works' # <<>>
            => {W("yes"), W("cancel")} \subseteq view'.buttons]_vars

\* the last record was deleted while the confirmation was pending
C10_Witness ==
  /\ trigger.widget.name = "delete"
  /\ works = <<>>
  /\ confirm_delete_all
  /\ view.info

====
